---- MODULE Spec2Model ----
(***************************************************************************)
(* State-machine model of the RetailSyncSaaS backend (gouravmawari/webHook) *)
(*                                                                         *)
(* One request slot holds one HTTP request from its arrival to its         *)
(* response.  A handler runs atomically between two awaits (Node's single  *)
(* thread); every remote call is issued in one step and returns, with an   *)
(* outcome chosen by the remote side, in a later step.                     *)
(***************************************************************************)
EXTENDS Integers, Sequences, FiniteSets, TLC

VARIABLES env, session, req, drive

vars == <<env, session, req, drive>>

(* ------------------------------ bounds --------------------------------- *)

\* request slots that may be in flight at the same time (SpecConc)
NumReqs == 2
\* files the remote store accepts before the model stops issuing uploads
MaxFiles == 2
\* rows (header included) and columns of a sheet returned by values.get
MaxRows == 2
MaxCols == 2

Reqs == 1..NumReqs

(* --------------------------- plain JS values --------------------------- *)

\* an object without properties
EmptyObj == <<>>

\* obj with property k set to v (assignment obj.k = v)
SetProp(obj, k, v) == [x \in DOMAIN obj \cup {k} |-> IF x = k THEN v ELSE obj[x]]

Has(obj, k) == k \in DOMAIN obj

Msg(m) == [message |-> m]

\* JS values where a property may hold a string, null or undefined
Str(s) == <<"string", s>>
Undefined == <<"undefined">>
Null == <<"null">>

\* !v for such a value
Falsy(v) == v \in {Undefined, Null, Str("")}

(* ------------------------------ sessions ------------------------------- *)

\* no passport user in the session
NoUser == [authenticated |-> FALSE, accessToken |-> "none", email |-> Undefined]

\* the user object the strategy's verify callback hands to done()
GoogleUser(accessToken, email) ==
    [authenticated |-> TRUE, accessToken |-> accessToken, email |-> Str(email)]

\* profile.emails[0].value of the accounts that sign in
Emails == {"user@example.com", "other@example.com"}

\* what the identity provider can hand over as access token
AccessTokens == {"tok", "none"}

Sessions == {NoUser} \cup {GoogleUser(t, e) : t \in AccessTokens, e \in Emails}

\* req.isAuthenticated()
isAuthenticated(q) == q.user.authenticated

\* req.user && req.user.accessToken
HasToken(q) == q.user.authenticated /\ q.user.accessToken # "none"

(* ------------------------------ requests ------------------------------- *)

IdleReq ==
    [kind |-> "none", pc |-> "idle", user |-> NoUser, in |-> EmptyObj,
     calls |-> <<>>, data |-> EmptyObj, status |-> 0, body |-> EmptyObj,
     sent |-> 0, verified |-> <<>>]

\* res.status(st).json(b)
Respond(q, st, b) ==
    [q EXCEPT !.status = st, !.body = b, !.sent = @ + 1, !.pc = "done"]

\* a remote call leaves the process
Issue(q, op, f, next) ==
    [q EXCEPT !.calls = Append(@, [op |-> op, file |-> f, res |-> "pending"]),
              !.pc = next]

\* the outstanding remote call returns with outcome res
Settle(q, res) == [q EXCEPT !.calls[Len(q.calls)].res = res]

\* a request reaches the server: passport.session() restores req.user
Arrive(r, kind, in, first) ==
    /\ req[r].pc = "idle"
    /\ req' = [req EXCEPT ![r] = [IdleReq EXCEPT !.kind = kind, !.pc = first,
                                                  !.user = session, !.in = in]]
    /\ UNCHANGED <<env, session, drive>>

\* the client is done with the response; the slot takes the next request
Reset(r) ==
    /\ req[r].pc = "done"
    /\ req' = [req EXCEPT ![r] = IdleReq]
    /\ UNCHANGED <<env, session, drive>>

(* ------------------------- ensureAuthenticated ------------------------- *)

\* mutant: the middleware checks the login only
ensureAuthenticated_NoTokenCheck(q, next) ==
    IF isAuthenticated(q)
    THEN [q EXCEPT !.pc = next]
    ELSE Respond(q, 401, Msg("Unauthorized. Please log in."))

ensureAuthenticated(q, next) ==
    IF isAuthenticated(q)
    THEN IF HasToken(q)
         THEN [q EXCEPT !.pc = next]
         ELSE Respond(q, 401, Msg("Access token missing in session."))
    ELSE Respond(q, 401, Msg("Unauthorized. Please log in."))

(* --------------------------- the remote store -------------------------- *)

\* the id the store gives to the next created file
NextFileId == Cardinality(drive.files) + 1

PublicUrl(id) == <<"https://docs.google.com/spreadsheets/d/", id, "/edit?usp=sharing">>

\* the link the store reports for a file
WebViewLink(id) == <<"https://docs.google.com/spreadsheets/d/", id, "/edit?usp=drivesdk">>

\* Error(prefix + cause)
Err(prefix, cause) == <<prefix, cause>>

\* the message of the error a failed remote call raises
ProviderError(op) == <<op, "request failed">>

(* ------------------------- multer: upload.single ----------------------- *)

FileSizeLimit == 10 * 1024 * 1024

AcceptedMimeTypes ==
    {"application/vnd.ms-excel",
     "application/vnd.openxmlformats-officedocument.spreadsheetml.sheet",
     "text/csv"}

NoFile == [present |-> FALSE, mimetype |-> "none", size |-> 0, originalname |-> "none"]

SomeFile(m, s) == [present |-> TRUE, mimetype |-> m, size |-> s, originalname |-> "sales"]

\* the files a client may attach
UploadFiles ==
    {NoFile} \cup
    {SomeFile(m, s) : m \in AcceptedMimeTypes \cup {"application/pdf"},
                      s \in {2 * 1024 * 1024, FileSizeLimit + 1}}

\* mutant: the filter accepts every file
fileFilter_AcceptAll(file) == TRUE

\* fileFilter: cb(null, true) or cb(new Error(...), false)
fileFilter(file) == file.mimetype \in AcceptedMimeTypes

\* limits.fileSize
withinLimits(file) == file.size <= FileSizeLimit

\* upload.single('spreadsheet') followed by handleMulterError
handleMulterError(q) ==
    LET file == q.in.file IN
    IF ~file.present THEN [q EXCEPT !.pc = "controller"]
    ELSE IF ~fileFilter(file)
    THEN Respond(q, 400, Msg("Only spreadsheet files (.xls, .xlsx, .csv) are allowed."))
    ELSE IF ~withinLimits(file)
    THEN Respond(q, 400, Msg("File upload error: File too large"))
    ELSE [q EXCEPT !.pc = "controller"]

(* ------------------------------ sendToN8n ------------------------------ *)

N8nWebhookUrl == "N8N_WEBHOOK_URL"

\* the query parameters sendToN8n appends: null and undefined values are skipped
n8nParams(spreadsheetId, metadata) ==
    LET keep == {k \in DOMAIN metadata : metadata[k] \notin {Undefined, Null}}
        base == [spreadsheetId |-> spreadsheetId, source |-> Str("RetailSyncSaaS")]
    IN  [k \in DOMAIN base \cup keep |-> IF k \in keep THEN metadata[k] ELSE base[k]]

\* sendToN8n up to its axios.get
sendToN8n(q, spreadsheetId, url, metadata, next) ==
    LET c == [op |-> "n8n.get", file |-> spreadsheetId, res |-> "pending",
              url |-> url, params |-> n8nParams(spreadsheetId, metadata)]
    IN  [q EXCEPT !.calls = Append(@, c), !.pc = next]

\* catch in sendToN8n
n8nError == Err("Failed to send data to n8n: ", ProviderError("n8n.get"))

(* --------------------------- uploadSpreadsheet ------------------------- *)

\* property of an object, or undefined
Prop(obj, k) == IF Has(obj, k) THEN obj[k] ELSE Undefined

\* mutant: the forward always announces a public file
isPublicParam_Always(d) == Str("true")

\* uploadedFileData.isPublic === true ? "true" : "false"
isPublicParam(d) ==
    IF Has(d, "isPublic") /\ d["isPublic"] = TRUE THEN Str("true") ELSE Str("false")

\* mutant: the forward announces the newest file of the store
forwardUpload_LatestFile(q, d) ==
    LET publicUrl == IF Has(d, "publicUrl") THEN d["publicUrl"] ELSE PublicUrl(d["id"])
        metadata ==
            [fileName |-> Prop(d, "name"),
             webViewLink |-> Prop(d, "webViewLink"),
             publicUrl |-> publicUrl,
             uploadedBy |-> q.user.email,
             sourceFile |-> Str(q.in.file.originalname),
             isPublic |-> isPublicParam(d)]
    IN  sendToN8n([q EXCEPT !.data = d], Cardinality(drive.files), N8nWebhookUrl, metadata,
                  "forward")

\* uploadSpreadsheetController after uploadSpreadsheet has returned d
forwardUpload(q, d) ==
    LET publicUrl == IF Has(d, "publicUrl") THEN d["publicUrl"] ELSE PublicUrl(d["id"])
        metadata ==
            [fileName |-> Prop(d, "name"),
             webViewLink |-> Prop(d, "webViewLink"),
             publicUrl |-> publicUrl,
             uploadedBy |-> q.user.email,
             sourceFile |-> Str(q.in.file.originalname),
             isPublic |-> isPublicParam(d)]
    IN  sendToN8n([q EXCEPT !.data = d], d["id"], N8nWebhookUrl, metadata, "forward")

\* mutant: the create failure is swallowed and the upload reported as stored
uploadFailed_Swallowed(q, cause) ==
    Respond(q, 201, [message |-> "Spreadsheet uploaded successfully", spreadsheet |-> q.data])

\* catch in uploadSpreadsheet, then catch in uploadSpreadsheetController
uploadFailed(q, cause) ==
    Respond(q, 500, [message |-> "Failed to upload spreadsheet to Google Drive.",
                     error |-> Err("Failed to upload spreadsheet. Reason: ", cause)])

\* mutant: the catch block records the error and forgets the flag
publicizeFailed_NoFlag(q, cause) ==
    forwardUpload(q, SetProp(q.data, "publicPermissionError",
                             Err("Failed to make file public. Reason: ", cause)))

\* mutant: a permission failure is rethrown to the outer catch
publicizeFailed_Fatal(q, cause) == uploadFailed(q, cause)

\* catch (permError) in uploadSpreadsheet, then return response.data
publicizeFailed(q, cause) ==
    LET msg == Err("Failed to make file public. Reason: ", cause)
        d1 == SetProp(q.data, "isPublic", FALSE)
        d2 == SetProp(d1, "publicPermissionError", msg)
    IN  forwardUpload(q, d2)

\* makeFilePublic has returned publicPermissions: the assignments before the sleep
publicizeSucceeded(q) ==
    LET id == q.data["id"]
        publicPermissions ==
            [permissionId |-> "anyoneWithLink", permissionType |-> "anyone",
             permissionRole |-> "writer", webViewLink |-> WebViewLink(id),
             publicUrl |-> PublicUrl(id)]
        d1 == SetProp(q.data, "webViewLink", publicPermissions.webViewLink)
        d2 == SetProp(d1, "publicUrl", publicPermissions.publicUrl)
        d3 == SetProp(d2, "isPublic", TRUE)
        d4 == SetProp(d3, "publicPermissions", publicPermissions)
    IN  [q EXCEPT !.data = d4, !.pc = "sleep"]

\* verifyPublicAccess: the boolean it returns for the outcome of its axios.get
verifyPublicAccess(outcome) ==
    CASE outcome = "200" -> TRUE
      [] outcome = "3xx" -> TRUE
      [] OTHER -> FALSE

VerifyOutcomes == {"200", "3xx", "4xx", "neterr"}

\* the makePublic argument the controller passes
MakePublic == TRUE

\* uploadSpreadsheet up to its drive.files.create
uploadSpreadsheet(q) == Issue(q, "files.create", 0, "files.create")

\* uploadSpreadsheetController up to the first await
uploadSpreadsheetController(q) ==
    IF ~HasToken(q)
    THEN Respond(q, 401, Msg("Authentication required or access token missing."))
    ELSE IF ~q.in.file.present
    THEN Respond(q, 400, Msg("No file uploaded. Please upload a spreadsheet file."))
    ELSE uploadSpreadsheet(q)

\* mutant: the diagnostic read and the permission call leave together
fileCreated_FanOut(q, id) ==
    LET name == IF ~Falsy(q.in.fileName) THEN q.in.fileName
                ELSE Str(q.in.file.originalname)
        d == [id |-> id, name |-> name, webViewLink |-> WebViewLink(id)]
        q1 == [q EXCEPT !.data = d]
    IN  Issue(Issue(q1, "files.get:check", id, "precheck"),
              "permissions.create", id, "permissions.create")

\* drive.files.create has resolved with a file of the given id
fileCreated(q, id) ==
    LET name == IF ~Falsy(q.in.fileName) THEN q.in.fileName
                ELSE Str(q.in.file.originalname)
        d == [id |-> id, name |-> name, webViewLink |-> WebViewLink(id)]
        q1 == [q EXCEPT !.data = d]
    IN  IF MakePublic
        THEN Issue(q1, "files.get:check", id, "precheck")
        ELSE forwardUpload(q1, SetProp(d, "isPublic", FALSE))

(* ------------------------- actions: upload flow ------------------------ *)

\* uploads and copies whose file the store has not created yet
PendingUploads ==
    {r \in Reqs : req[r].kind \in {"upload", "copy"} /\ req[r].pc \notin {"idle", "done"}
                  /\ ~Has(req[r].data, "id")}

\* POST /api/sheets/upload reaches the router with one of the given files and names
UploadRequestOf(r, files, names) ==
    /\ Cardinality(drive.files) + Cardinality(PendingUploads) < MaxFiles
    /\ \E f \in files, n \in names :
          Arrive(r, "upload", [file |-> f, fileName |-> n], "auth")

\* POST /api/sheets/upload reaches the router
UploadRequest(r) == UploadRequestOf(r, UploadFiles, {Undefined, Str(""), Str("custom")})

\* ensureAuthenticated of the three /api/sheets routes
EnsureAuthenticated(r) ==
    /\ req[r].pc = "auth"
    /\ req' = [req EXCEPT ![r] =
                 ensureAuthenticated(@, IF @.kind = "upload" THEN "multer" ELSE "controller")]
    /\ UNCHANGED <<env, session, drive>>

Multer(r) ==
    /\ req[r].kind = "upload" /\ req[r].pc = "multer"
    /\ req' = [req EXCEPT ![r] = handleMulterError(@)]
    /\ UNCHANGED <<env, session, drive>>

UploadController(r) ==
    /\ req[r].kind = "upload" /\ req[r].pc = "controller"
    /\ req' = [req EXCEPT ![r] = uploadSpreadsheetController(@)]
    /\ UNCHANGED <<env, session, drive>>

\* drive.files.create returns
FilesCreateReturn(r) ==
    /\ req[r].pc = "files.create"
    /\ \E ok \in BOOLEAN :
          IF ok
          THEN /\ req' = [req EXCEPT ![r] = fileCreated(Settle(@, "ok"), NextFileId)]
               /\ drive' = [drive EXCEPT !.files = @ \cup {NextFileId}]
          ELSE /\ req' = [req EXCEPT ![r] =
                            uploadFailed(Settle(@, "fail"), ProviderError("files.create"))]
               /\ UNCHANGED drive
    /\ UNCHANGED <<env, session>>

\* mutant: a failed diagnostic read aborts makeFilePublic
precheckReturned_Abort(q, ok) ==
    IF ok
    THEN Issue(Settle(q, "ok"), "permissions.create", q.data["id"], "permissions.create")
    ELSE publicizeFailed(Settle(q, "fail"), ProviderError("files.get"))

\* makeFilePublic: the diagnostic drive.files.get has returned; a failure is caught
\* and logged, and drive.permissions.create is issued in both cases
precheckReturned(q, ok) ==
    Issue(Settle(q, IF ok THEN "ok" ELSE "fail"),
          "permissions.create", q.data["id"], "permissions.create")

\* makeFilePublic: the diagnostic drive.files.get returns
PrecheckReturn(r) ==
    /\ req[r].pc = "precheck"
    /\ \E ok \in BOOLEAN : req' = [req EXCEPT ![r] = precheckReturned(@, ok)]
    /\ UNCHANGED <<env, session, drive>>

\* makeFilePublic: drive.permissions.create returns
PermissionsCreateReturn(r) ==
    /\ req[r].pc = "permissions.create"
    /\ \E ok \in BOOLEAN :
          IF ok
          THEN /\ req' = [req EXCEPT ![r] =
                            Issue(Settle(@, "ok"), "files.get:info", @.data["id"], "fileInfo")]
               /\ drive' = [drive EXCEPT !.public = @ \cup {req[r].data["id"]}]
          ELSE /\ req' = [req EXCEPT ![r] =
                            publicizeFailed(Settle(@, "fail"),
                                            ProviderError("permissions.create"))]
               /\ UNCHANGED drive
    /\ UNCHANGED <<env, session>>

\* makeFilePublic: the drive.files.get after the permission returns
FileInfoReturn(r) ==
    /\ req[r].pc = "fileInfo"
    /\ \E ok \in BOOLEAN :
          req' = [req EXCEPT ![r] =
                    IF ok
                    THEN Issue(Settle(@, "ok"), "verify.get", @.data["id"], "verify")
                    ELSE publicizeFailed(Settle(@, "fail"), ProviderError("files.get"))]
    /\ UNCHANGED <<env, session, drive>>

\* verifyPublicAccess: its axios.get returns; makeFilePublic returns in every case
VerifyReturn(r) ==
    /\ req[r].pc = "verify"
    /\ \E o \in VerifyOutcomes :
          req' = [req EXCEPT ![r] =
                    publicizeSucceeded([Settle(@, o) EXCEPT
                                           !.verified = <<verifyPublicAccess(o)>>])]
    /\ UNCHANGED <<env, session, drive>>

\* the two-second setTimeout of uploadSpreadsheet elapses
SleepDone(r) ==
    /\ req[r].pc = "sleep"
    /\ req' = [req EXCEPT ![r] = forwardUpload(@, @.data)]
    /\ UNCHANGED <<env, session, drive>>

\* upload succeeded and sendToN8n resolved
forwardSucceeded(q) ==
    Respond(q, 201,
            [message |-> "Spreadsheet uploaded and automatically sent to n8n workflow!",
             spreadsheet |-> q.data,
             n8nForwarding |-> [success |-> TRUE, webhookUrl |-> N8nWebhookUrl,
                                result |-> "n8n response"]])

\* mutant: a failed forward removes the file it could not announce
forwardFailed_Rollback(q) ==
    Respond([q EXCEPT !.calls = Append(@, [op |-> "files.delete", file |-> q.data["id"],
                                           res |-> "ok"])],
            201,
            [message |-> "Spreadsheet uploaded successfully, but failed to send to n8n workflow.",
             spreadsheet |-> q.data,
             n8nForwarding |-> [success |-> FALSE, webhookUrl |-> N8nWebhookUrl,
                                error |-> n8nError]])

\* mutant: a failed forward is sent a second time before giving up
forwardFailed_Retry(q) ==
    IF Cardinality({i \in DOMAIN q.calls : q.calls[i].op = "n8n.get"}) < 2
    THEN [q EXCEPT !.calls = Append(@, [q.calls[Len(q.calls)] EXCEPT !.res = "pending"])]
    ELSE Respond(q, 201,
                 [message |-> "Spreadsheet uploaded successfully, but failed to send to n8n workflow.",
                  spreadsheet |-> q.data,
                  n8nForwarding |-> [success |-> FALSE, webhookUrl |-> N8nWebhookUrl,
                                     error |-> n8nError]])

\* mutant: the forwarding failure reaches the outer catch
forwardFailed_As500(q) ==
    Respond(q, 500, [message |-> "Failed to upload spreadsheet to Google Drive.",
                     error |-> n8nError])

\* catch (webhookError) in uploadSpreadsheetController
forwardFailed(q) ==
    Respond(q, 201,
            [message |-> "Spreadsheet uploaded successfully, but failed to send to n8n workflow.",
             spreadsheet |-> q.data,
             n8nForwarding |-> [success |-> FALSE, webhookUrl |-> N8nWebhookUrl,
                                error |-> n8nError]])

\* the axios.get of sendToN8n returns to uploadSpreadsheetController
ForwardReturn(r) ==
    /\ req[r].pc = "forward"
    /\ \E ok \in BOOLEAN :
          req' = [req EXCEPT ![r] =
                    IF ok THEN forwardSucceeded(Settle(@, "ok"))
                    ELSE forwardFailed(Settle(@, "fail"))]
    /\ UNCHANGED <<env, session, drive>>

(* ----------------------- POST /api/sheets/copy ------------------------- *)

\* mutant: the body is not validated before copySheet runs
copySheetController_NoValidation(q) ==
    IF ~HasToken(q)
    THEN Respond(q, 401, Msg("Authentication required or access token missing."))
    ELSE Issue(q, "files.get:name", q.in.sourceSheetId, "nameLookup")

\* copySheetController up to the first await of copySheet
copySheetController(q) ==
    IF ~HasToken(q)
    THEN Respond(q, 401, Msg("Authentication required or access token missing."))
    ELSE IF Falsy(q.in.sourceSheetId)
    THEN Respond(q, 400, Msg("Missing required field: sourceSheetId"))
    ELSE Issue(q, "files.get:name", q.in.sourceSheetId, "nameLookup")

\* mutant: the requested name is ignored
copyName_IgnoreNew(newSheetName, originalName) == <<"Copy of ", originalName>>

\* name: newSheetName || `Copy of ${originalName}`
copyName(newSheetName, originalName) ==
    IF ~Falsy(newSheetName) THEN newSheetName ELSE <<"Copy of ", originalName>>

\* copySheet after the name lookup: drive.files.copy is issued
copyFile(q, originalName) ==
    LET c == [op |-> "files.copy", file |-> q.in.sourceSheetId, res |-> "pending",
              name |-> copyName(q.in.newSheetName, originalName)]
    IN  [q EXCEPT !.calls = Append(@, c), !.pc = "files.copy"]

\* drive.files.copy resolved: 201 with the copy's metadata
copySucceeded(q, id) ==
    LET d == [id |-> id, name |-> q.calls[Len(q.calls)].name, webViewLink |-> WebViewLink(id)]
    IN  Respond([q EXCEPT !.data = d], 201,
                [message |-> "Sheet copied successfully!", newSheet |-> d])

\* catch in copySheet, then catch in copySheetController
copyFailed(q) ==
    Respond(q, 500, [message |-> "Failed to copy the Google Sheet.",
                     error |-> Err("Failed to copy Google Sheet. Reason: ",
                                   ProviderError("files.copy"))])

CopyRequest(r) ==
    /\ Cardinality(drive.files) + Cardinality(PendingUploads) < MaxFiles
    /\ \E src \in {Undefined, Str(""), Str("sheet1")},
          new \in {Undefined, Str(""), Str("Budget")} :
          Arrive(r, "copy", [sourceSheetId |-> src, newSheetName |-> new], "auth")

CopyController(r) ==
    /\ req[r].kind = "copy" /\ req[r].pc = "controller"
    /\ req' = [req EXCEPT ![r] = copySheetController(@)]
    /\ UNCHANGED <<env, session, drive>>

\* the name lookup returns; on failure the default name is kept
NameLookupReturn(r) ==
    /\ req[r].pc = "nameLookup"
    /\ \E ok \in BOOLEAN :
          req' = [req EXCEPT ![r] =
                    IF ok THEN copyFile(Settle(@, "ok"), "Original")
                    ELSE copyFile(Settle(@, "fail"), "Spreadsheet")]
    /\ UNCHANGED <<env, session, drive>>

FilesCopyReturn(r) ==
    /\ req[r].pc = "files.copy"
    /\ \E ok \in BOOLEAN :
          IF ok
          THEN /\ req' = [req EXCEPT ![r] = copySucceeded(Settle(@, "ok"), NextFileId)]
               /\ drive' = [drive EXCEPT !.files = @ \cup {NextFileId}]
          ELSE /\ req' = [req EXCEPT ![r] = copyFailed(Settle(@, "fail"))]
               /\ UNCHANGED drive
    /\ UNCHANGED <<env, session>>

(* --------------------- POST /api/sheets/send-to-n8n -------------------- *)

\* sendToN8nController up to the await of sendToN8n
sendToN8nController(q) ==
    IF ~HasToken(q)
    THEN Respond(q, 401, Msg("Authentication required or access token missing."))
    ELSE IF Falsy(q.in.spreadsheetId)
    THEN Respond(q, 400, Msg("Missing required field: spreadsheetId"))
    ELSE IF Falsy(q.in.n8nWebhookUrl)
    THEN Respond(q, 400, Msg("Missing required field: n8nWebhookUrl"))
    ELSE sendToN8n(q, q.in.spreadsheetId, q.in.n8nWebhookUrl, q.in.metadata, "send")

sendSucceeded(q) ==
    Respond(q, 200, [message |-> "Spreadsheet ID successfully sent to n8n workflow!",
                     result |-> "n8n response"])

\* mutant: the send failure is logged and the request answered as sent
sendFailed_Swallowed(q) ==
    Respond(q, 200, [message |-> "Spreadsheet ID successfully sent to n8n workflow!",
                     result |-> "n8n response"])

\* catch in sendToN8nController
sendFailed(q) ==
    Respond(q, 500, [message |-> "Failed to send spreadsheet ID to n8n workflow.",
                     error |-> n8nError])

SendRequest(r) ==
    \E id \in {Undefined, Str("sheet1")}, url \in {Undefined, Str("http://n8n/webhook")},
       md \in {EmptyObj, [notes |-> Str("check")], [notes |-> Null]} :
       Arrive(r, "send", [spreadsheetId |-> id, n8nWebhookUrl |-> url, metadata |-> md],
              "auth")

SendController(r) ==
    /\ req[r].kind = "send" /\ req[r].pc = "controller"
    /\ req' = [req EXCEPT ![r] = sendToN8nController(@)]
    /\ UNCHANGED <<env, session, drive>>

SendReturn(r) ==
    /\ req[r].pc = "send"
    /\ \E ok \in BOOLEAN :
          req' = [req EXCEPT ![r] =
                    IF ok THEN sendSucceeded(Settle(@, "ok"))
                    ELSE sendFailed(Settle(@, "fail"))]
    /\ UNCHANGED <<env, session, drive>>

(* -------------------------- GET /webhook/sheet -------------------------- *)

\* process.env as loaded at start: WEBHOOK_TOKEN may be unset
Envs == {[WEBHOOK_TOKEN |-> t] : t \in {Undefined, Str("secret")}}

\* the formatted cell values the spreadsheet provider returns
Cells == {Str(""), Str("a")}

SheetRows == UNION {[1..k -> Cells] : k \in 0..MaxCols}

\* the value ranges values.get can return: the first row is the header row
Sheets == UNION {[1..k -> SheetRows] : k \in 0..MaxRows}

\* what values.get resolves with: response.data, with or without a values property
ValueRanges == {EmptyObj} \cup {[values |-> v] : v \in Sheets \ {<<>>}}

\* readSheet: response.data.values || []
readSheet(data) == IF Has(data, "values") THEN data["values"] ELSE <<>>

\* the record built for one data row: obj[header] = row[index] || null
rowObject(headers, row) ==
    [h \in {headers[j] : j \in DOMAIN headers} |->
        LET last == CHOOSE j \in DOMAIN headers :
                       /\ headers[j] = h
                       /\ \A i \in DOMAIN headers : headers[i] = h => i <= j
        IN  IF last \in DOMAIN row /\ ~Falsy(row[last]) THEN row[last] ELSE Null]

\* range || 'Sheet1'
rangeOrDefault(range) == IF Falsy(range) THEN Str("Sheet1") ELSE range

\* getSheetDataWebhook after readSheet has returned sheetData
sheetResponse(q0, sheetData) ==
    LET q == [q0 EXCEPT !.data = [sheetData |-> sheetData]] IN
    IF Len(sheetData) < 1
    THEN Respond(q, 200, [data |-> <<>>])
    ELSE LET headers == sheetData[1]
             rows == [i \in 1..(Len(sheetData) - 1) |-> rowObject(headers, sheetData[i + 1])]
         IN  Respond(q, 200, [sheetId |-> q.in.spreadsheetId,
                              range |-> rangeOrDefault(q.in.range),
                              rowCount |-> Len(rows),
                              data |-> rows])

\* catch in getSheetDataWebhook
webhookFailed(q, cause) ==
    Respond(q, 500, [error |-> "Failed to read Google Sheet", message |-> cause])

\* mutant: the token is compared but not required
tokenRejected_OnlyCompare(webhookToken, expectedToken) == webhookToken # expectedToken

\* !webhookToken || webhookToken !== expectedToken
tokenRejected(webhookToken, expectedToken) ==
    Falsy(webhookToken) \/ webhookToken # expectedToken

\* getSheetDataWebhook up to its first await
getSheetDataWebhook(q, expectedToken) ==
    IF tokenRejected(q.in.webhookToken, expectedToken)
    THEN Respond(q, 401, [error |-> "Invalid webhook token"])
    ELSE IF Falsy(q.in.spreadsheetId)
    THEN Respond(q, 400, [error |-> "Missing required parameter: spreadsheetId"])
    ELSE Issue(q, "oauth2.getAccessToken", q.in.spreadsheetId, "getAccessToken")

WebhookTokens == {Undefined, Str(""), Str("wrong"), Str("secret")}

WebhookRequest(r) ==
    \E id \in {Undefined, Str("sheet1")}, range \in {Undefined, Str("A1:B2")},
       t \in WebhookTokens :
       Arrive(r, "webhook", [spreadsheetId |-> id, range |-> range, webhookToken |-> t],
              "handler")

WebhookHandler(r) ==
    /\ req[r].kind = "webhook" /\ req[r].pc = "handler"
    /\ req' = [req EXCEPT ![r] = getSheetDataWebhook(@, env.WEBHOOK_TOKEN)]
    /\ UNCHANGED <<env, session, drive>>

\* oauth2Client.getAccessToken() returns: readSheet issues values.get
GetAccessTokenReturn(r) ==
    /\ req[r].pc = "getAccessToken"
    /\ \E ok \in BOOLEAN :
          req' = [req EXCEPT ![r] =
                    IF ok
                    THEN Issue(Settle(@, "ok"), "values.get", @.in.spreadsheetId, "values.get")
                    ELSE webhookFailed(Settle(@, "fail"),
                                       ProviderError("oauth2.getAccessToken"))]
    /\ UNCHANGED <<env, session, drive>>

\* sheets.spreadsheets.values.get returns
ValuesGetReturn(r) ==
    /\ req[r].pc = "values.get"
    /\ \/ \E data \in ValueRanges :
             req' = [req EXCEPT ![r] = sheetResponse(Settle(@, "ok"), readSheet(data))]
       \/ req' = [req EXCEPT ![r] =
                    webhookFailed(Settle(@, "fail"),
                                  Err("Failed to read Google Sheet. Reason: ",
                                      ProviderError("values.get")))]
    /\ UNCHANGED <<env, session, drive>>

(* ------------------------------ /auth routes --------------------------- *)

\* a slot that answers in the step the request arrives in
Answer(r, kind, st, b) ==
    /\ req[r].pc = "idle"
    /\ req' = [req EXCEPT ![r] =
                 Respond([IdleReq EXCEPT !.kind = kind, !.user = session], st, b)]

\* GET /auth/google/callback: passport exchanges the code, the verify callback builds
\* the user, and the session keeps it; a denial redirects to /login-failed
GoogleCallback(r) ==
    /\ \/ \E t \in AccessTokens, e \in Emails :
             /\ session' = GoogleUser(t, e)
             /\ Answer(r, "callback", 302, [location |-> "/"])
       \/ /\ Answer(r, "callback", 302, [location |-> "/login-failed"])
          /\ UNCHANGED session
    /\ UNCHANGED <<env, drive>>

\* GET /auth/check
AuthCheck(r) ==
    /\ IF session.authenticated
       THEN Answer(r, "check", 200, [isAuthenticated |-> TRUE, user |-> session])
       ELSE Answer(r, "check", 200, [isAuthenticated |-> FALSE])
    /\ UNCHANGED <<env, session, drive>>

\* how GET /auth/logout can go: req.logout fails before or after the user has left
\* the session, req.session.destroy fails, or both succeed
LogoutOutcomes == {"logoutErrorEarly", "logoutErrorLate", "destroyError", "ok"}

\* mutant: a successful logout clears the cookie and leaves the session as it was
logout_KeepsUser(s, outcome) ==
    CASE outcome = "logoutErrorEarly" ->
            [session |-> s, status |-> 500, body |-> Msg("logout error")]
      [] outcome = "logoutErrorLate" ->
            [session |-> NoUser, status |-> 500, body |-> Msg("logout error")]
      [] outcome = "destroyError" ->
            [session |-> NoUser, status |-> 500, body |-> Msg("Could not log out.")]
      [] OTHER ->
            [session |-> s, status |-> 200, body |-> Msg("Logged Out")]

\* router.get('/logout'): the session left behind and the response, per outcome
logout(s, outcome) ==
    CASE outcome = "logoutErrorEarly" ->
            [session |-> s, status |-> 500, body |-> Msg("logout error")]
      [] outcome = "logoutErrorLate" ->
            [session |-> NoUser, status |-> 500, body |-> Msg("logout error")]
      [] outcome = "destroyError" ->
            [session |-> NoUser, status |-> 500, body |-> Msg("Could not log out.")]
      [] OTHER ->
            [session |-> NoUser, status |-> 200, body |-> Msg("Logged Out")]

\* GET /auth/logout: req.logout, then req.session.destroy
Logout(r) ==
    /\ \E o \in LogoutOutcomes :
          LET res == logout(session, o) IN
          /\ Answer(r, "logout", res.status, res.body)
          /\ session' = res.session
    /\ UNCHANGED <<env, drive>>

(* --------------------------- GET /api/protected ------------------------ *)

ProtectedRequest(r) == Arrive(r, "protected", EmptyObj, "auth")

\* the handler behind ensureAuthenticated
ProtectedHandler(r) ==
    /\ req[r].kind = "protected" /\ req[r].pc = "controller"
    /\ req' = [req EXCEPT ![r] =
                 Respond(@, 200, [message |-> "You have accessed protected data!",
                                  user |-> @.user])]
    /\ UNCHANGED <<env, session, drive>>

(* ---------------------------- specifications --------------------------- *)

Init ==
    /\ env \in Envs
    /\ session = NoUser
    /\ req = [r \in Reqs |-> IdleReq]
    /\ drive = [files |-> {}, public |-> {}]

\* no other slot holds a request
Alone(r) == \A o \in Reqs \ {r} : req[o].pc = "idle"

\* the /api/sheets and /auth routes, one request at a time
Next ==
    \E r \in Reqs :
       \/ Alone(r) /\ UploadRequest(r)
       \/ Alone(r) /\ CopyRequest(r)
       \/ Alone(r) /\ SendRequest(r)
       \/ Alone(r) /\ GoogleCallback(r)
       \/ Alone(r) /\ AuthCheck(r)
       \/ Alone(r) /\ Logout(r)
       \/ Alone(r) /\ ProtectedRequest(r)
       \/ ProtectedHandler(r)
       \/ EnsureAuthenticated(r)
       \/ Multer(r)
       \/ UploadController(r)
       \/ FilesCreateReturn(r)
       \/ PrecheckReturn(r)
       \/ PermissionsCreateReturn(r)
       \/ FileInfoReturn(r)
       \/ VerifyReturn(r)
       \/ SleepDone(r)
       \/ ForwardReturn(r)
       \/ CopyController(r)
       \/ NameLookupReturn(r)
       \/ FilesCopyReturn(r)
       \/ SendController(r)
       \/ SendReturn(r)
       \/ Reset(r)

Spec == Init /\ [][Next]_vars

\* GET /webhook/sheet, one request at a time
NextWebhook ==
    \E r \in Reqs :
       \/ Alone(r) /\ WebhookRequest(r)
       \/ WebhookHandler(r)
       \/ GetAccessTokenReturn(r)
       \/ ValuesGetReturn(r)
       \/ Reset(r)

SpecWebhook == Init /\ [][NextWebhook]_vars

\* every route, one request at a time; the webhook route reads neither the session
\* nor the store, and is served while both are as they start
NextAll == Next \/ (session = NoUser /\ drive.files = {} /\ NextWebhook)

SpecAll == Init /\ [][NextAll]_vars

\* uploads of an accepted file in flight together, under the sessions that sign-ins
\* set up in between; each slot serves one upload
NextConc ==
    \E r \in Reqs :
       \/ GoogleCallback(r)
       \/ req[r].kind = "callback" /\ Reset(r)
       \/ UploadRequestOf(r, {SomeFile("text/csv", 2 * 1024 * 1024)}, {Undefined})
       \/ EnsureAuthenticated(r)
       \/ Multer(r)
       \/ UploadController(r)
       \/ FilesCreateReturn(r)
       \/ PrecheckReturn(r)
       \/ PermissionsCreateReturn(r)
       \/ FileInfoReturn(r)
       \/ VerifyReturn(r)
       \/ SleepDone(r)
       \/ ForwardReturn(r)

SpecConc == Init /\ [][NextConc]_vars

(* ------------------------ reading a request's log ---------------------- *)

\* the positions of request r's calls of operation op
CallsOf(r, op) == {i \in DOMAIN req[r].calls : req[r].calls[i].op = op}

\* request r has issued op and it returned res
Returned(r, op, res) == \E i \in CallsOf(r, op) : req[r].calls[i].res = res

Uploads == {r \in Reqs : req[r].kind = "upload"}

\* makeFilePublic threw: the permission call or the read that follows it failed
PermissionStageFailed(r) ==
    Returned(r, "permissions.create", "fail") \/ Returned(r, "files.get:info", "fail")

(* -------------------------------- claims ------------------------------- *)

\* C1: when the create-file call of an upload fails, the request ends with a 500
\* response and no set-permission, reachability or forward call is issued for it.
C1_CreateFailureIsFatal ==
    \A r \in Uploads :
       Returned(r, "files.create", "fail") =>
          /\ req[r].pc = "done" /\ req[r].status = 500 /\ req[r].sent = 1
          /\ Has(req[r].body, "error")
          /\ Len(req[r].calls) = 1

C1_Witness ==
    \E r \in Uploads : Returned(r, "files.create", "fail") /\ req[r].pc = "done"

\* C2: when the permission-granting stage of an upload fails, the descriptor handed
\* back has isPublic = false and carries the permission error message.
C2_PermissionFailureMarksNotPublic ==
    \A r \in Uploads :
       PermissionStageFailed(r) =>
          LET d == req[r].data IN
          /\ Has(d, "isPublic") /\ d["isPublic"] = FALSE
          /\ Has(d, "publicPermissionError")
          /\ d["publicPermissionError"] \in
                {Err("Failed to make file public. Reason: ", ProviderError(op)) :
                    op \in {"permissions.create", "files.get"}}
          /\ req[r].pc = "done" =>
                /\ Has(req[r].body, "spreadsheet")
                /\ req[r].body["spreadsheet"] = d

C2_Witness ==
    \E r \in Uploads :
       /\ req[r].pc = "done"
       /\ Returned(r, "permissions.create", "fail")
       /\ req[r].body["spreadsheet"]["isPublic"] = FALSE

\* C3: when the file was created and the forward call fails, the response is still
\* 201, holds the created descriptor and n8nForwarding.success = false with the
\* forwarding error, whether the permission stage succeeded or failed.
C3_ForwardFailureStill201 ==
    \A r \in Uploads :
       (Returned(r, "files.create", "ok") /\ Returned(r, "n8n.get", "fail")) =>
          /\ req[r].pc = "done" /\ req[r].status = 201 /\ req[r].sent = 1
          /\ Has(req[r].body, "spreadsheet")
          /\ req[r].body["spreadsheet"] = req[r].data
          /\ req[r].data["id"] \in drive.files
          /\ req[r].body["n8nForwarding"]["success"] = FALSE
          /\ req[r].body["n8nForwarding"]["error"] = n8nError

C3_Witness ==
    \E r \in Uploads :
       /\ Returned(r, "n8n.get", "fail") /\ PermissionStageFailed(r)
       /\ req[r].status = 201

\* C4: in every terminal state of an upload whose file was created, isPublic is true
\* exactly when the set-permission call for that file succeeded.
C4_IsPublicIffPermissionGranted ==
    \A r \in Uploads :
       (req[r].pc = "done" /\ Returned(r, "files.create", "ok")) =>
          (req[r].body["spreadsheet"]["isPublic"] = TRUE
             <=> Returned(r, "permissions.create", "ok"))

C4_Reached ==
    \E r \in Uploads :
       /\ req[r].pc = "done"
       /\ Returned(r, "permissions.create", "ok")
       /\ Returned(r, "files.get:info", "fail")

Webhooks == {r \in Reqs : req[r].kind = "webhook"}

\* C5: a GET /webhook/sheet whose webhookToken is absent or differs from the
\* configured secret gets 401 {error: "Invalid webhook token"} and issues no remote
\* call, whatever its other query parameters are.
C5_BadTokenIs401NoCalls ==
    \A r \in Webhooks :
       LET t == req[r].in.webhookToken IN
       (req[r].pc # "handler" /\ (t = Undefined \/ t # env.WEBHOOK_TOKEN)) =>
          /\ req[r].pc = "done" /\ req[r].status = 401 /\ req[r].sent = 1
          /\ req[r].body = [error |-> "Invalid webhook token"]
          /\ req[r].calls = <<>>

C5_Witness ==
    \E r \in Webhooks :
       /\ req[r].pc = "done" /\ req[r].status = 401
       /\ req[r].in.webhookToken = Str("wrong")
       /\ req[r].in.spreadsheetId = Str("sheet1")
       /\ env.WEBHOOK_TOKEN = Str("secret")

\* the order in which an upload request passes its control points
UploadOrder ==
    <<"auth", "multer", "controller", "files.create", "precheck", "permissions.create",
      "fileInfo", "verify", "sleep", "forward", "done">>

UploadRank(pc) == CHOOSE i \in DOMAIN UploadOrder : UploadOrder[i] = pc

\* the terminal states of the upload flow that describe request r
TerminalStates(r) ==
    LET b == req[r].body
        ok == req[r].status = 201 /\ Returned(r, "files.create", "ok")
        public == b["spreadsheet"]["isPublic"]
        forwarded == b["n8nForwarding"]["success"]
    IN  {s \in {"CreateFailed"} :
            req[r].status = 500 /\ Returned(r, "files.create", "fail")}
        \cup {s \in {"Created+Public+Forwarded"} :
            ok /\ public /\ forwarded /\ Returned(r, "n8n.get", "ok")}
        \cup {s \in {"Created+Public+ForwardFailed"} :
            ok /\ public /\ ~forwarded /\ Returned(r, "n8n.get", "fail")}
        \cup {s \in {"Created+NotPublic+Forwarded"} :
            ok /\ ~public /\ forwarded /\ Returned(r, "n8n.get", "ok")}
        \cup {s \in {"Created+NotPublic+ForwardFailed"} :
            ok /\ ~public /\ ~forwarded /\ Returned(r, "n8n.get", "fail")}

\* an upload that went past authentication and validation
Accepted(r) == req[r].kind = "upload" /\ req[r].calls # <<>>

\* a step of the upload flow of request r
UploadStep(r) ==
    \/ FilesCreateReturn(r) \/ PrecheckReturn(r) \/ PermissionsCreateReturn(r)
    \/ FileInfoReturn(r) \/ VerifyReturn(r) \/ SleepDone(r) \/ ForwardReturn(r)

\* C6: every upload that passes authentication and validation ends, with exactly one
\* response, in exactly one of the five terminal states; 201 in the four Created
\* states and 500 only in CreateFailed.  The flow only moves forward, a request that
\* has not ended can take its next step as soon as its remote call returns, and no
\* response is sent before the end.
C6_UploadEndsInOneTerminalState ==
    /\ [](\A r \in Reqs :
            Accepted(r) =>
               IF req[r].pc = "done"
               THEN /\ req[r].sent = 1
                    /\ Cardinality(TerminalStates(r)) = 1
                    /\ req[r].status = 500 <=> TerminalStates(r) = {"CreateFailed"}
                    /\ req[r].status \in {201, 500}
               ELSE /\ req[r].sent = 0 /\ req[r].status = 0
                    /\ ENABLED UploadStep(r))
    /\ [][\A r \in Reqs :
            (Accepted(r) /\ req'[r] # req[r] /\ req'[r].kind = "upload") =>
               UploadRank(req'[r].pc) > UploadRank(req[r].pc)]_vars

C6_Witness ==
    \E r \in Reqs :
       /\ Accepted(r) /\ req[r].pc = "done"
       /\ TerminalStates(r) = {"Created+NotPublic+ForwardFailed"}

ApiRequests == {r \in Reqs : req[r].kind \in {"upload", "copy", "send"}}

\* C7: on the three /api/sheets routes a request without an authenticated session, or
\* with a session that lacks an accessToken, gets 401 and issues no remote call, and
\* the two cases get different responses.
C7_UnauthenticatedIs401NoCalls ==
    \A r \in ApiRequests :
       LET u == req[r].user IN
       (req[r].pc # "auth" /\ (~u.authenticated \/ u.accessToken = "none")) =>
          /\ req[r].pc = "done" /\ req[r].status = 401 /\ req[r].sent = 1
          /\ req[r].calls = <<>>
          /\ req[r].body = Msg(IF u.authenticated
                               THEN "Access token missing in session."
                               ELSE "Unauthorized. Please log in.")

C7_Witness ==
    \E r \in ApiRequests :
       /\ req[r].kind = "send" /\ req[r].pc = "done" /\ req[r].status = 401
       /\ req[r].user.authenticated /\ req[r].user.accessToken = "none"

\* C8: an authenticated upload whose file has a MIME type outside the three accepted
\* ones, or is larger than 10 MB, or is missing, gets 400 and issues no remote call.
C8_InvalidUploadIs400NoCalls ==
    \A r \in Uploads :
       LET f == req[r].in.file
           u == req[r].user
       IN  (/\ u.authenticated /\ u.accessToken # "none"
            /\ req[r].pc \notin {"auth", "multer", "controller"}
            /\ \/ ~f.present
               \/ f.mimetype \notin
                     {"application/vnd.ms-excel",
                      "application/vnd.openxmlformats-officedocument.spreadsheetml.sheet",
                      "text/csv"}
               \/ f.size > 10 * 1024 * 1024) =>
              /\ req[r].pc = "done" /\ req[r].status = 400 /\ req[r].sent = 1
              /\ req[r].calls = <<>>

C8_Witness ==
    \E r \in Uploads :
       /\ req[r].pc = "done" /\ req[r].status = 400
       /\ req[r].in.file.present /\ req[r].in.file.mimetype = "application/pdf"
       /\ req[r].in.file.size <= FileSizeLimit

Copies == {r \in Reqs : req[r].kind = "copy"}

\* C9: an authenticated POST /api/sheets/copy without sourceSheetId gets 400 with the
\* message "Missing required field: sourceSheetId"; neither the name lookup nor the
\* copy call is issued.
C9_CopyWithoutSourceIs400 ==
    \A r \in Copies :
       LET u == req[r].user IN
       (/\ u.authenticated /\ u.accessToken # "none"
        /\ req[r].pc \notin {"auth", "controller"}
        /\ req[r].in.sourceSheetId = Undefined) =>
          /\ req[r].pc = "done" /\ req[r].status = 400 /\ req[r].sent = 1
          /\ req[r].body = Msg("Missing required field: sourceSheetId")
          /\ CallsOf(r, "files.get:name") = {} /\ CallsOf(r, "files.copy") = {}

C9_Witness ==
    \E r \in Copies :
       /\ req[r].pc = "done" /\ req[r].status = 400
       /\ req[r].in.sourceSheetId = Undefined
       /\ req[r].in.newSheetName = Str("Budget")

\* C10: GET /webhook/sheet with a valid token on a sheet without data rows (no rows at
\* all, or a header row only) answers 200 with rowCount = 0 and data = [].
C10_NoDataRowsIsEmptyResult ==
    \A r \in Webhooks :
       (/\ req[r].pc = "done" /\ Returned(r, "values.get", "ok")
        /\ Len(req[r].data["sheetData"]) <= 1) =>
          /\ req[r].status = 200
          /\ Has(req[r].body, "rowCount") /\ req[r].body["rowCount"] = 0
          /\ Has(req[r].body, "data") /\ req[r].body["data"] = <<>>

C10_Reached ==
    \E r \in Webhooks :
       /\ req[r].pc = "done" /\ Returned(r, "values.get", "ok")
       /\ req[r].data["sheetData"] = <<>>

\* C11: every data row of the sheet yields a record with exactly one field per
\* header column, and a field whose column lies beyond the end of a shorter row is
\* null rather than omitted.
C11_OneFieldPerHeaderColumn ==
    \A r \in Webhooks :
       (/\ req[r].pc = "done" /\ Returned(r, "values.get", "ok")
        /\ Len(req[r].data["sheetData"]) >= 1) =>
          LET sheet == req[r].data["sheetData"]
              headers == sheet[1]
              records == req[r].body["data"]
          IN  /\ Len(records) = Len(sheet) - 1
              /\ \A i \in DOMAIN records :
                    /\ Cardinality(DOMAIN records[i]) = Len(headers)
                    /\ \A j \in DOMAIN headers :
                          j > Len(sheet[i + 1]) =>
                             /\ headers[j] \in DOMAIN records[i]
                             /\ records[i][headers[j]] = Null

\* a header row that names two columns alike, over a data row
C11_Reached ==
    \E r \in Webhooks :
       /\ req[r].pc = "done" /\ Returned(r, "values.get", "ok")
       /\ Len(req[r].data["sheetData"]) = 2
       /\ req[r].data["sheetData"][1] = <<Str("a"), Str("a")>>
       /\ Len(req[r].body["data"]) = 1
       /\ DOMAIN req[r].body["data"][1] = {Str("a")}

\* C12: within one request every remote call is attempted at most once, whatever its
\* outcome; a failed call is not retried, and the failure the response carries is
\* the one of that single attempt.
C12_NoRetry ==
    \A r \in Reqs :
       LET calls == req[r].calls IN
       /\ \A i, j \in DOMAIN calls : calls[i].op = calls[j].op => i = j
       /\ \A i \in DOMAIN calls : calls[i].res = "pending" => i = Len(calls)
       /\ Returned(r, "files.create", "fail") =>
             req[r].body["error"] =
                Err("Failed to upload spreadsheet. Reason: ", ProviderError("files.create"))
       /\ Returned(r, "permissions.create", "fail") =>
             req[r].data["publicPermissionError"] =
                Err("Failed to make file public. Reason: ", ProviderError("permissions.create"))
       /\ Returned(r, "n8n.get", "fail") =>
             IF req[r].kind = "upload"
             THEN req[r].body["n8nForwarding"]["error"] = n8nError
             ELSE req[r].body["error"] = n8nError
       /\ Returned(r, "files.copy", "fail") =>
             req[r].body["error"] =
                Err("Failed to copy Google Sheet. Reason: ", ProviderError("files.copy"))
       /\ Returned(r, "values.get", "fail") =>
             req[r].body["message"] =
                Err("Failed to read Google Sheet. Reason: ", ProviderError("values.get"))

C12_Witness ==
    \E r \in Uploads :
       /\ req[r].pc = "done"
       /\ Returned(r, "permissions.create", "fail")
       /\ Returned(r, "n8n.get", "fail")
       /\ Len(req[r].calls) = 4

\* the remote calls uploadSpreadsheet and its controller make: none deletes a file
\* or revokes a permission
UploadOps ==
    {"files.create", "files.get:check", "permissions.create", "files.get:info",
     "verify.get", "n8n.get"}

\* C13: once the create call of an upload has succeeded, no later step of the request
\* issues a deleting or revoking call; the created file stays in the remote store and
\* a granted permission stays granted, also when the permission or the forward fails.
C13_NoRollback ==
    /\ [](\A r \in Uploads :
             Returned(r, "files.create", "ok") =>
                /\ \A i \in DOMAIN req[r].calls : req[r].calls[i].op \in UploadOps
                /\ req[r].data["id"] \in drive.files
                /\ Returned(r, "permissions.create", "ok") =>
                      req[r].data["id"] \in drive.public)
    /\ [][/\ drive.files \subseteq drive'.files
          /\ drive.public \subseteq drive'.public]_vars

\* created and made public, the forward failed: the file is still stored and public
C13_Witness ==
    \E r \in Uploads :
       /\ req[r].pc = "done"
       /\ Returned(r, "files.create", "ok")
       /\ Returned(r, "permissions.create", "ok")
       /\ Returned(r, "n8n.get", "fail")
       /\ req[r].data["id"] \in drive.files \cap drive.public

CallRank(op) ==
    CASE op = "files.create" -> 1
      [] op = "files.get:check" -> 2
      [] op = "permissions.create" -> 3
      [] op = "files.get:info" -> 4
      [] op = "verify.get" -> 5
      [] op = "n8n.get" -> 6
      [] OTHER -> 0

\* makeFilePublic has returned or thrown
PublicizeFinished(r) ==
    \/ Returned(r, "permissions.create", "fail")
    \/ Returned(r, "files.get:info", "fail")
    \/ \E o \in VerifyOutcomes : Returned(r, "verify.get", o)

\* C15: the remote calls of one upload are strictly sequential: only the last call
\* issued can be outstanding, the calls leave in the order create, set-permission,
\* reachability verification, forward, and the forward leaves only after the
\* publicize stage has finished, successfully or not.
C15_StrictlySequential ==
    \A r \in Uploads :
       LET calls == req[r].calls IN
       /\ \A i \in DOMAIN calls : calls[i].res = "pending" => i = Len(calls)
       /\ \A i, j \in DOMAIN calls :
             i < j => CallRank(calls[i].op) < CallRank(calls[j].op)
       /\ \A i \in DOMAIN calls : CallRank(calls[i].op) > 0
       /\ CallsOf(r, "n8n.get") # {} =>
             /\ Returned(r, "files.create", "ok")
             /\ PublicizeFinished(r)
             /\ Has(req[r].data, "isPublic")

\* all six calls of a successful upload, the forward outstanding
C15_Witness ==
    \E r \in Uploads :
       /\ req[r].pc = "forward"
       /\ Len(req[r].calls) = 6
       /\ req[r].calls[6].op = "n8n.get" /\ req[r].calls[6].res = "pending"
       /\ \A i \in 1..5 : req[r].calls[i].res # "pending"

\* C16: an upload whose create call succeeded issues the forward call exactly once,
\* whether the publicize stage succeeded or failed; the call carries the id of the
\* file the request created and an isPublic flag equal to the isPublic value of the
\* descriptor in the response.
C16_ForwardOnceWithOwnDescriptor ==
    \A r \in Uploads :
       /\ Cardinality(CallsOf(r, "n8n.get")) <= 1
       /\ CallsOf(r, "n8n.get") # {} => Returned(r, "files.create", "ok")
       /\ (req[r].pc = "done" /\ Returned(r, "files.create", "ok")) =>
             /\ Cardinality(CallsOf(r, "n8n.get")) = 1
             /\ \A i \in CallsOf(r, "n8n.get") :
                   LET c == req[r].calls[i]
                       d == req[r].body["spreadsheet"]
                   IN  /\ c.url = N8nWebhookUrl
                       /\ d["id"] \in drive.files
                       /\ c.file = d["id"]
                       /\ c.params["spreadsheetId"] = d["id"]
                       /\ c.params["isPublic"] =
                             (IF d["isPublic"] THEN Str("true") ELSE Str("false"))

\* the permission failed and the forward announced a file that is not public
C16_Witness ==
    \E r \in Uploads :
       /\ req[r].pc = "done"
       /\ Returned(r, "files.create", "ok")
       /\ Returned(r, "permissions.create", "fail")
       /\ \E i \in CallsOf(r, "n8n.get") :
             req[r].calls[i].params["isPublic"] = Str("false")
       /\ req[r].body["spreadsheet"]["isPublic"] = FALSE

\* the response of request r shows that its call op failed: an error status, or the
\* annotation the success response carries for that stage
FailureVisible(r, op) ==
    LET b == req[r].body IN
    \/ req[r].status >= 400
    \/ /\ op \in {"permissions.create", "files.get:info"}
       /\ Has(b, "spreadsheet")
       /\ Has(b["spreadsheet"], "publicPermissionError")
    \/ /\ op = "n8n.get"
       /\ Has(b, "n8nForwarding")
       /\ Has(b["n8nForwarding"], "error")

\* every failed call of an answered request outside the given set is visible
FailuresVisibleExcept(advisory) ==
    \A r \in Reqs :
       req[r].pc = "done" =>
          \A i \in DOMAIN req[r].calls :
             (req[r].calls[i].res = "fail" /\ req[r].calls[i].op \notin advisory) =>
                FailureVisible(r, req[r].calls[i].op)

\* C17 as stated: only the permission pre-check and the reachability verification
\* fail silently. Refuted: the copy's source-name lookup fails silently too.
C17_OnlyAdvisoryStepsSwallowed ==
    FailuresVisibleExcept({"files.get:check", "verify.get"})

\* C17 amended: the failure of any remote call other than the permission pre-check,
\* the reachability verification and the source-name lookup of the copy is visible
\* in the response, as an error status or as an error annotation.
C17_FailuresVisibleButAdvisoryAndNameLookup ==
    FailuresVisibleExcept({"files.get:check", "verify.get", "files.get:name"})

\* a copy answered 201 although its name lookup failed
C17_Witness ==
    \E r \in Reqs :
       /\ req[r].kind = "copy" /\ req[r].pc = "done" /\ req[r].status = 201
       /\ Returned(r, "files.get:name", "fail")
       /\ ~Has(req[r].body, "error")

\* C18: a copy issues drive.files.copy exactly once after the source-name lookup,
\* whether the lookup succeeded or failed; the copy is named newSheetName when one
\* is supplied, otherwise "Copy of " followed by the looked-up name, or by the
\* default name "Spreadsheet" when the lookup failed; a failed copy call is answered
\* 500 and a successful one 201.
C18_CopyOnceWithName ==
    \A r \in Copies :
       LET calls == req[r].calls
           lookedUp == Returned(r, "files.get:name", "ok") \/ Returned(r, "files.get:name", "fail")
           expected ==
               IF ~Falsy(req[r].in.newSheetName) THEN req[r].in.newSheetName
               ELSE IF Returned(r, "files.get:name", "ok") THEN <<"Copy of ", "Original">>
               ELSE <<"Copy of ", "Spreadsheet">>
       IN  /\ Cardinality(CallsOf(r, "files.copy")) = (IF lookedUp THEN 1 ELSE 0)
           /\ \A i \in CallsOf(r, "files.copy") :
                 /\ i = 2 /\ calls[1].op = "files.get:name"
                 /\ calls[i].file = req[r].in.sourceSheetId
                 /\ calls[i].name = expected
           /\ Returned(r, "files.copy", "fail") =>
                 /\ req[r].pc = "done" /\ req[r].status = 500
                 /\ req[r].body["message"] = "Failed to copy the Google Sheet."
           /\ Returned(r, "files.copy", "ok") =>
                 /\ req[r].pc = "done" /\ req[r].status = 201
                 /\ req[r].body["newSheet"]["name"] = expected

\* the lookup failed, no name was asked for, and the copy succeeded
C18_Witness ==
    \E r \in Copies :
       /\ req[r].pc = "done" /\ req[r].status = 201
       /\ Returned(r, "files.get:name", "fail")
       /\ Falsy(req[r].in.newSheetName)
       /\ req[r].body["newSheet"]["name"] = <<"Copy of ", "Spreadsheet">>

\* C19: with uploads in flight together, under the same or different accounts, each
\* request's descriptor, isPublic flag and n8nForwarding result, and the file id and
\* uploader its forward call carries, are those of its own remote calls: no two
\* requests share a file id, and nothing in a response depends on another request.
C19_ConcurrentUploadsIndependent ==
    /\ \A r1, r2 \in Uploads :
          (r1 # r2 /\ Has(req[r1].data, "id") /\ Has(req[r2].data, "id")) =>
             req[r1].data["id"] # req[r2].data["id"]
    /\ \A r \in Uploads :
          LET q == req[r]
              granted == \E o \in VerifyOutcomes : Returned(r, "verify.get", o)
              refused == \/ Returned(r, "permissions.create", "fail")
                         \/ Returned(r, "files.get:info", "fail")
          IN  /\ Has(q.data, "id") <=> Returned(r, "files.create", "ok")
              /\ Has(q.data, "id") =>
                    (q.data["id"] \in drive.public <=>
                        Returned(r, "permissions.create", "ok"))
              /\ Has(q.data, "isPublic") <=> (granted \/ refused)
              /\ Has(q.data, "isPublic") => (q.data["isPublic"] <=> granted)
              /\ \A i \in CallsOf(r, "n8n.get") :
                    /\ q.calls[i].file = q.data["id"]
                    /\ q.calls[i].params["uploadedBy"] = q.user.email
                    /\ q.calls[i].params["isPublic"] =
                          (IF granted THEN Str("true") ELSE Str("false"))
              /\ q.pc = "done" =>
                    /\ q.status = 201 <=> Returned(r, "files.create", "ok")
                    /\ q.status = 500 <=> Returned(r, "files.create", "fail")
                    /\ q.status = 201 =>
                          /\ q.body["spreadsheet"] = q.data
                          /\ q.body["n8nForwarding"]["success"] <=>
                                Returned(r, "n8n.get", "ok")

\* two uploads of different accounts in flight together: the later one has overtaken
\* the earlier one and was answered with a file that is not public
C19_Witness ==
    \E r1, r2 \in Uploads :
       /\ r1 # r2
       /\ req[r1].user.email # req[r2].user.email
       /\ req[r1].pc = "verify" /\ req[r1].data["id"] = 1
       /\ req[r2].pc = "done" /\ req[r2].status = 201
       /\ req[r2].data["id"] = 2
       /\ req[r2].body["spreadsheet"]["isPublic"] = FALSE
       /\ req[r2].body["n8nForwarding"]["success"] = FALSE

\* the routes behind ensureAuthenticated
ProtectedRequests == {r \in Reqs : req[r].kind \in {"upload", "copy", "send", "protected"}}

\* slot r answers a GET /auth/logout in this step
LogoutStep(r) == req[r].pc = "idle" /\ req'[r].kind = "logout"

\* slot r answers a GET /auth/google/callback that signed a user in
SignInStep(r) ==
    /\ req[r].pc = "idle" /\ req'[r].kind = "callback"
    /\ req'[r].body["location"] = "/"

\* C20: a successful GET /auth/logout leaves the session without a user, and the
\* session stays so until an identity-provider callback succeeds; every request
\* served with such a session gets isAuthenticated = false from GET /auth/check and
\* 401 without a remote call from the protected /api routes; a logout whose
\* teardown fails answers 500.
C20_SessionLifecycle ==
    /\ [](/\ \A r \in Reqs :
               (req[r].kind = "check" /\ req[r].user = NoUser) =>
                  /\ req[r].status = 200
                  /\ req[r].body["isAuthenticated"] = FALSE
          /\ \A r \in ProtectedRequests :
               (req[r].user = NoUser /\ req[r].pc # "auth") =>
                  /\ req[r].pc = "done" /\ req[r].status = 401
                  /\ req[r].calls = <<>>
          /\ \A s \in Sessions, o \in LogoutOutcomes :
               /\ logout(s, o).status \in {200, 500}
               /\ o # "ok" <=> logout(s, o).status = 500)
    /\ [][\A r \in Reqs :
             /\ LogoutStep(r) =>
                   /\ \E o \in LogoutOutcomes :
                         /\ session' = logout(session, o).session
                         /\ req'[r].status = logout(session, o).status
                   /\ req'[r].status = 200 => session' = NoUser
             /\ (req[r].pc = "idle" /\ req'[r].pc # "idle") =>
                   req'[r].user = session]_vars
    /\ [][(session = NoUser /\ session' # NoUser) => \E r \in Reqs : SignInStep(r)]_vars

\* a signed-in user who had uploaded a file logged out and got 200: the session
\* holds no user any more
C20_Witness ==
    \E r \in Reqs :
       /\ req[r].kind = "logout" /\ req[r].pc = "done" /\ req[r].status = 200
       /\ HasToken(req[r])
       /\ drive.files # {}
       /\ session = NoUser

====
